---- MODULE Spec2Model ----
(***************************************************************************)
(* Navigation synchronizer of the documentation page (web/src/pages/      *)
(* Docs.tsx).  Strings are sequences of one-character strings, so that the *)
(* address codec (getUrl, percent-encoding, the router's split of the      *)
(* address into route segments, search and fragment, and the decoding in   *)
(* Docs) is computed character by character.                               *)
(*                                                                         *)
(* One action models one inbound event together with the re-render and the *)
(* effects React runs for it before the next event is handled.             *)
(***************************************************************************)
EXTENDS Integers, Sequences, FiniteSets, TLC

VARIABLES
    address,             \* window.location.hash, the visible address
    location,            \* what the router hooks return (useParams, useLocation, useSearchParams)
    versions,            \* useState<ProjectDetails[]>
    loadingFailed,       \* useState<boolean>
    project,             \* useRef
    page,                \* useRef
    hash,                \* useRef
    version,             \* useState<string>
    hideUi,              \* useState<boolean>
    iframeUpdateTrigger, \* useState<number>
    iFrameSrc,           \* useMemo: the source address handed to the embedded viewer
    advisory,            \* the message banner: TRUE when the outdated warning is shown
    fetch,               \* the getVersions call issued by the mount effect
    lastEvent,           \* history: the event handled by the last step
    reloads              \* history: number of recomputations of iFrameSrc in the last step

vars == <<address, location, versions, loadingFailed, project, page, hash, version,
          hideUi, iframeUpdateTrigger, iFrameSrc, advisory, fetch, lastEvent, reloads>>

\* the navigation tuple plus versions and loadingFailed, and what is derived from them
progVars == <<address, location, versions, loadingFailed, project, page, hash, version,
              hideUi, iframeUpdateTrigger, iFrameSrc, advisory, fetch>>

----------------------------------------------------------------------------
(* Bounds *)

\* external address changes are allowed while iframeUpdateTrigger stays within this bound
MaxTrigger == 2

----------------------------------------------------------------------------
(* String literals *)

EMPTY == <<>>
LATEST == <<"l", "a", "t", "e", "s", "t">>
INDEX_HTML == <<"i", "n", "d", "e", "x", ".", "h", "t", "m", "l">>
HIDE_UI == <<"h", "i", "d", "e", "-", "u", "i">>
TRUE_STR == <<"t", "r", "u", "e">>
HIDE_UI_TRUE == HIDE_UI \o <<"=">> \o TRUE_STR

\* JavaScript's undefined / null: a value no string equals
UNDEFINED == <<"undefined">>

----------------------------------------------------------------------------
(* String primitives of the platform *)

\* characters encodeURIComponent leaves alone are all but these
Escapes ==
    [c \in {"/", "?", "#", "%", "=", "&"} |->
        CASE c = "/" -> <<"%", "2", "F">>
          [] c = "?" -> <<"%", "3", "F">>
          [] c = "#" -> <<"%", "2", "3">>
          [] c = "%" -> <<"%", "2", "5">>
          [] c = "=" -> <<"%", "3", "D">>
          [] c = "&" -> <<"%", "2", "6">>]

RECURSIVE encodeURIComponent(_)
encodeURIComponent(s) ==
    IF s = <<>> THEN <<>>
    ELSE (IF Head(s) \in DOMAIN Escapes THEN Escapes[Head(s)] ELSE <<Head(s)>>)
         \o encodeURIComponent(Tail(s))

RECURSIVE decodeURIComponent(_)
decodeURIComponent(s) ==
    IF s = <<>> THEN <<>>
    ELSE IF /\ Head(s) = "%"
            /\ Len(s) >= 3
            /\ \E c \in DOMAIN Escapes : Escapes[c] = SubSeq(s, 1, 3)
         THEN <<CHOOSE c \in DOMAIN Escapes : Escapes[c] = SubSeq(s, 1, 3)>>
              \o decodeURIComponent(SubSeq(s, 4, Len(s)))
         ELSE <<Head(s)>> \o decodeURIComponent(Tail(s))

\* String.prototype.indexOf for a single character; 0 when absent (1-based)
RECURSIVE indexOf(_, _)
indexOf(s, c) ==
    IF s = <<>> THEN 0
    ELSE IF Head(s) = c THEN 1
    ELSE LET r == indexOf(Tail(s), c) IN IF r = 0 THEN 0 ELSE r + 1

\* String.prototype.split for a single-character separator
RECURSIVE split(_, _)
split(s, c) ==
    LET i == indexOf(s, c) IN
    IF i = 0 THEN <<s>>
    ELSE <<SubSeq(s, 1, i - 1)>> \o split(SubSeq(s, i + 1, Len(s)), c)

\* element i (0-based) of a JavaScript array, undefined past its end
at(arr, i) == IF i + 1 <= Len(arr) THEN arr[i + 1] ELSE UNDEFINED

\* a ?? b
orElse(a, b) == IF a = UNDEFINED THEN b ELSE a

----------------------------------------------------------------------------
(* The router: from the visible address to params, location.hash and        *)
(* searchParams (HashRouter of react-router-dom 6)                          *)

\* the path after the leading '#' is cut at the first '#' (location.hash), the
\* rest at the first '?' (location.search); what remains is the pathname
parsePath(path) ==
    LET hi == indexOf(path, "#")
        h  == IF hi = 0 THEN <<>> ELSE SubSeq(path, hi, Len(path))
        p1 == IF hi = 0 THEN path ELSE SubSeq(path, 1, hi - 1)
        si == indexOf(p1, "?")
        s  == IF si = 0 THEN <<>> ELSE SubSeq(p1, si, Len(p1))
        pn == IF si = 0 THEN p1 ELSE SubSeq(p1, 1, si - 1)
    IN [pathname |-> pn, search |-> s, hash |-> h]

\* URLSearchParams.get
RECURSIVE pairsGet(_, _)
pairsGet(pairs, key) ==
    IF pairs = <<>> THEN UNDEFINED
    ELSE LET kv == split(Head(pairs), "=") IN
         IF kv[1] = key
         THEN (IF Len(kv) >= 2 THEN decodeURIComponent(kv[2]) ELSE <<>>)
         ELSE pairsGet(Tail(pairs), key)

searchParamsGet(search, key) ==
    IF search = <<>> \/ search = <<"?">> THEN UNDEFINED
    ELSE pairsGet(split(Tail(search), "&"), key)

\* the route /:project/:version/:page; a parameter is the percent-decoded segment,
\* undefined when the segment is missing
useRouter(addr) ==
    LET loc  == parsePath(IF addr # <<>> /\ Head(addr) = "#" THEN Tail(addr) ELSE addr)
        segs == IF loc.pathname = <<>> THEN <<>> ELSE Tail(split(loc.pathname, "/"))
        param(i) == IF i <= Len(segs) /\ segs[i] # <<>>
                    THEN decodeURIComponent(segs[i]) ELSE UNDEFINED
    IN [project |-> param(1), version |-> param(2), page |-> param(3),
        hash |-> loc.hash, hideUiParam |-> searchParamsGet(loc.search, HIDE_UI)]

----------------------------------------------------------------------------
(* The address codec of Docs *)

getUrl(p, v, pg, h, hide) ==
    <<"#", "/">> \o p \o <<"/">> \o v \o <<"/">> \o encodeURIComponent(pg) \o h
    \o (IF hide THEN <<"?">> \o HIDE_UI_TRUE ELSE <<>>)

urlProject(loc) == orElse(loc.project, EMPTY)
urlVersion(loc) == orElse(loc.version, LATEST)
urlPage(loc) == orElse(loc.page, INDEX_HTML)
urlHash(loc) == orElse(at(split(loc.hash, "?"), 0), EMPTY)
urlHideUi(loc) ==
    \/ loc.hideUiParam = TRUE_STR
    \/ at(split(loc.hash, "?"), 1) = HIDE_UI_TRUE

\* the tuple Docs reads from an address
decode(addr) ==
    LET loc == useRouter(addr) IN
    [project |-> urlProject(loc), version |-> urlVersion(loc), page |-> urlPage(loc),
     hash |-> urlHash(loc), hideUi |-> urlHideUi(loc)]

----------------------------------------------------------------------------
(* ProjectRepository: versions of the projects, the Version Comparator and  *)
(* the source address of the embedded viewer                                *)

P1 == <<"p", "1">>
P2 == <<"p", "2">>
P3 == <<"p", "3">>
V100 == <<"1", ".", "0", ".", "0">>
V110 == <<"1", ".", "1", ".", "0">>
V120 == <<"1", ".", "2", ".", "0">>
V200 == <<"2", ".", "0", ".", "0">>
V999 == <<"9", ".", "9", ".", "9">>
STABLE == <<"s", "t", "a", "b", "l", "e">>
PAGE_AB == <<"a", "/", "b">>
HASH_A == <<"#", "a">>
HASH_AQB == <<"#", "a", "?", "b">>

Projects == {P1, P2, P3}

\* what listVersions answers for each project, in the order the service returns it
Repo ==
    [p \in Projects |->
        CASE p = P1 -> <<[name |-> V100, tags |-> <<>>],
                         [name |-> V120, tags |-> <<>>],
                         [name |-> V110, tags |-> <<>>]>>
          [] p = P2 -> <<[name |-> V200, tags |-> <<STABLE>>]>>
          [] p = P3 -> <<>>]

Alphabet == <<".", "0", "1", "2", "3", "4", "5", "6", "7", "8", "9",
              "a", "b", "e", "l", "s", "t">>
rank(c) == CHOOSE i \in 1..Len(Alphabet) : Alphabet[i] = c
Digits == {"0", "1", "2", "3", "4", "5", "6", "7", "8", "9"}
digit(c) == rank(c) - 2

\* major.minor.patch with one-digit numbers
isSemver(n) ==
    LET parts == split(n, ".") IN
    /\ Len(parts) = 3
    /\ \A i \in 1..3 : Len(parts[i]) = 1 /\ parts[i][1] \in Digits

RECURSIVE lexCompare(_, _)
lexCompare(a, b) ==
    IF a = <<>> /\ b = <<>> THEN 0
    ELSE IF a = <<>> THEN -1
    ELSE IF b = <<>> THEN 1
    ELSE IF rank(Head(a)) < rank(Head(b)) THEN -1
    ELSE IF rank(Head(a)) > rank(Head(b)) THEN 1
    ELSE lexCompare(Tail(a), Tail(b))

semverNumbers(n) == [i \in 1..3 |-> digit(split(n, ".")[i][1])]

RECURSIVE numCompare(_, _)
numCompare(a, b) ==
    IF a = <<>> THEN 0
    ELSE IF Head(a) < Head(b) THEN -1
    ELSE IF Head(a) > Head(b) THEN 1
    ELSE numCompare(Tail(a), Tail(b))

compareVersions(a, b) ==
    IF isSemver(a.name) /\ isSemver(b.name)
    THEN numCompare(semverNumbers(a.name), semverNumbers(b.name))
    ELSE lexCompare(a.name, b.name)

RECURSIVE insertSorted(_, _)
insertSorted(v, sorted) ==
    IF sorted = <<>> THEN <<v>>
    ELSE IF compareVersions(v, Head(sorted)) < 0 THEN <<v>> \o sorted
    ELSE <<Head(sorted)>> \o insertSorted(v, Tail(sorted))

\* the collection kept in the order of the answer
sortVersions_unsorted(vs) == vs

\* allVersions.sort((a, b) => ProjectRepository.compareVersions(a, b))
RECURSIVE sortVersions(_)
sortVersions(vs) ==
    IF vs = <<>> THEN <<>>
    ELSE insertSorted(vs[Len(vs)], sortVersions(SubSeq(vs, 1, Len(vs) - 1)))

getLatestVersion(vs) ==
    IF vs = <<>> THEN [name |-> LATEST, tags |-> <<>>]
    ELSE CHOOSE v \in {vs[i] : i \in 1..Len(vs)} :
             \A j \in 1..Len(vs) : compareVersions(vs[j], v) <= 0

\* the answers of the service for a project: its records in any order
getVersions(p) ==
    LET vs == IF p \in DOMAIN Repo THEN Repo[p] ELSE <<>>
        n  == Len(vs)
    IN {[i \in 1..n |-> vs[f[i]]] :
            f \in {g \in [1..n -> 1..n] : \A i, j \in 1..n : g[i] = g[j] => i = j}}

getProjectDocsURL(p, v, pg, h) == [project |-> p, version |-> v, page |-> pg, hash |-> h]

\* the lookup list without the tags
versionsAndTags_namesOnly(vs) == [i \in 1..Len(vs) |-> vs[i].name]

RECURSIVE flatten(_)
flatten(ss) == IF ss = <<>> THEN <<>> ELSE Head(ss) \o flatten(Tail(ss))

\* allVersions.map((v) => [v.name, ...v.tags]).flat()
versionsAndTags(vs) == flatten([i \in 1..Len(vs) |-> <<vs[i].name>> \o vs[i].tags])

includes(arr, x) == \E i \in 1..Len(arr) : arr[i] = x

----------------------------------------------------------------------------
(* Inputs *)

Pages == {INDEX_HTML, PAGE_AB}
\* the hashes the embedded viewer reports
ViewerHashes == {EMPTY, HASH_AQB}

\* the addresses the user can enter, follow or go back to
Addresses ==
    {<<"#", "/">>,
     <<"#", "/">> \o P1,
     getUrl(P1, LATEST, INDEX_HTML, EMPTY, FALSE),
     getUrl(P1, V100, INDEX_HTML, EMPTY, FALSE),
     getUrl(P1, V100, PAGE_AB, HASH_A, FALSE),
     getUrl(P1, V999, INDEX_HTML, EMPTY, FALSE),
     getUrl(P2, LATEST, INDEX_HTML, EMPTY, FALSE),
     getUrl(P2, STABLE, INDEX_HTML, EMPTY, TRUE),
     getUrl(P2, STABLE, INDEX_HTML, HASH_A, TRUE),
     getUrl(P3, LATEST, INDEX_HTML, EMPTY, FALSE)}

----------------------------------------------------------------------------
(* The component *)

\* lines 174-197: what Docs returns
View ==
    IF loadingFailed \/ project = EMPTY THEN "NotFound"
    ELSE IF versions = <<>> THEN "Loading"
    ELSE "Docs"

\* DocumentControlButtons is part of the view
ControlsShown == View = "Docs" /\ ~hideUi

\* the effect on [version, versions] without its clearMessages() branch
outdatedEffect_neverCleared(v, vs, shown) ==
    IF vs = <<>> THEN shown
    ELSE IF v = getLatestVersion(vs).name THEN shown
    ELSE TRUE

\* the banner after the effect on [version, versions] has run with v and vs
outdatedEffect(v, vs, shown) ==
    IF vs = <<>> THEN shown
    ELSE IF v = getLatestVersion(vs).name THEN FALSE
    ELSE TRUE

\* the memo with the refs among its dependencies: [version, page.current, hash.current]
Render_refDeps(versionsSet) ==
    LET recompute == \/ version' # version
                     \/ iframeUpdateTrigger' # iframeUpdateTrigger
                     \/ page' # page
                     \/ hash' # hash IN
    /\ iFrameSrc' = IF recompute
                    THEN getProjectDocsURL(project', version', page', hash')
                    ELSE iFrameSrc
    /\ reloads' = IF recompute THEN 1 ELSE 0
    /\ advisory' = IF version' # version \/ versionsSet
                   THEN outdatedEffect(version', versions', advisory)
                   ELSE advisory

\* the memo computed from the refs as they were before the handler or effect wrote them
Render_staleRefs(versionsSet) ==
    LET recompute == version' # version \/ iframeUpdateTrigger' # iframeUpdateTrigger IN
    /\ iFrameSrc' = IF recompute
                    THEN getProjectDocsURL(project, version', page, hash)
                    ELSE iFrameSrc
    /\ reloads' = IF recompute THEN 1 ELSE 0
    /\ advisory' = IF version' # version \/ versionsSet
                   THEN outdatedEffect(version', versions', advisory)
                   ELSE advisory

\* The re-render after the handler's updates: the memo iFrameSrc is recomputed when
\* version or iframeUpdateTrigger changed, from the refs as they are then; the effect
\* on [version, versions] runs when version changed or setVersions was called.
Render(versionsSet) ==
    LET recompute == version' # version \/ iframeUpdateTrigger' # iframeUpdateTrigger IN
    /\ iFrameSrc' = IF recompute
                    THEN getProjectDocsURL(project', version', page', hash')
                    ELSE iFrameSrc
    /\ reloads' = IF recompute THEN 1 ELSE 0
    /\ advisory' = IF version' # version \/ versionsSet
                   THEN outdatedEffect(version', versions', advisory)
                   ELSE advisory

\* window.history.pushState(null, '', url): the router is not told
updateUrl(newVersion, newHideUi) ==
    address' = getUrl(project', newVersion, page', hash', newHideUi)

Init ==
    /\ address \in Addresses
    /\ location = useRouter(address)
    /\ versions = <<>>
    /\ loadingFailed = FALSE
    /\ project = urlProject(location)
    /\ page = urlPage(location)
    /\ hash = urlHash(location)
    /\ version = urlVersion(location)
    /\ hideUi = urlHideUi(location)
    /\ iframeUpdateTrigger = 0
    /\ iFrameSrc = getProjectDocsURL(project, version, page, hash)
    /\ advisory = FALSE
    \* the effect on [project] has run: it returns at once for an empty project
    /\ fetch = IF project = EMPTY
               THEN [status |-> "none", project |-> project, version |-> version]
               ELSE [status |-> "pending", project |-> project, version |-> version]
    /\ lastEvent = [type |-> "mount"]
    /\ reloads = 0

\* the continuation without the check for an empty collection
fetchCompleted_emptyIgnored(outcome) ==
    /\ fetch.status = "pending"
    /\ fetch' = [fetch EXCEPT !.status = "done"]
    /\ lastEvent' = [type |-> "fetchCompleted", outcome |-> outcome]
    /\ UNCHANGED <<address, location, project, page, hash, hideUi, iframeUpdateTrigger>>
    /\ \E allVersions \in getVersions(fetch.project) :
       LET sorted == sortVersions(allVersions)
           latestVersion == getLatestVersion(sorted).name
       IN
       IF outcome = "throw"
       THEN /\ loadingFailed' = TRUE
            /\ UNCHANGED <<versions, version>>
            /\ Render(FALSE)
       ELSE /\ versions' = sorted
            /\ IF fetch.version = LATEST
               THEN /\ version' = IF latestVersion = LATEST THEN version ELSE latestVersion
                    /\ UNCHANGED loadingFailed
               ELSE /\ UNCHANGED version
                    /\ loadingFailed' = IF includes(versionsAndTags(sorted), fetch.version)
                                        THEN loadingFailed ELSE TRUE
            /\ Render(TRUE)

\* The continuation of the effect on [project] after await getVersions(...): it works
\* on the project the call was issued for and on the version of the render that
\* issued it.
fetchCompleted(outcome) ==
    /\ fetch.status = "pending"
    /\ fetch' = [fetch EXCEPT !.status = "done"]
    /\ lastEvent' = [type |-> "fetchCompleted", outcome |-> outcome]
    /\ UNCHANGED <<address, location, project, page, hash, hideUi, iframeUpdateTrigger>>
    /\ \E allVersions \in getVersions(fetch.project) :
       LET sorted == sortVersions(allVersions)
           latestVersion == getLatestVersion(sorted).name
       IN
       IF outcome = "throw" \/ Len(allVersions) = 0
       THEN /\ loadingFailed' = TRUE
            /\ UNCHANGED <<versions, version>>
            /\ Render(FALSE)
       ELSE /\ versions' = sorted
            /\ IF fetch.version = LATEST
               THEN /\ version' = IF latestVersion = LATEST THEN version ELSE latestVersion
                    /\ UNCHANGED loadingFailed
               ELSE /\ UNCHANGED version
                    /\ loadingFailed' = IF includes(versionsAndTags(sorted), fetch.version)
                                        THEN loadingFailed ELSE TRUE
            /\ Render(TRUE)

\* the fields for which the effect on [location] finds the address to differ
differing(loc) ==
    (IF urlProject(loc) # project THEN {"project"} ELSE {})
    \cup (IF urlVersion(loc) # version THEN {"version"} ELSE {})
    \cup (IF urlHideUi(loc) # hideUi THEN {"hideUi"} ELSE {})
    \cup (IF urlPage(loc) # page THEN {"page"} ELSE {})
    \cup (IF urlHash(loc) # hash THEN {"hash"} ELSE {})

\* the effect clearing the failure when another project is entered
locationChanged_resetsFailure(addr) ==
    /\ address' = addr
    /\ location' = useRouter(addr)
    /\ iframeUpdateTrigger' = iframeUpdateTrigger
                                + (IF urlPage(location') # page THEN 1 ELSE 0)
                                + (IF urlHash(location') # hash THEN 1 ELSE 0)
    /\ iframeUpdateTrigger' <= MaxTrigger
    /\ lastEvent' = [type |-> "locationChanged", changed |-> differing(location')]
    /\ project' = urlProject(location')
    /\ versions' = IF urlProject(location') # project THEN <<>> ELSE versions
    /\ loadingFailed' = IF urlProject(location') # project THEN FALSE ELSE loadingFailed
    /\ version' = urlVersion(location')
    /\ hideUi' = urlHideUi(location')
    /\ page' = urlPage(location')
    /\ hash' = urlHash(location')
    /\ UNCHANGED fetch
    /\ Render(urlProject(location') # project)

\* The effect on [location]: the address was changed from outside (a link, the
\* address bar, back/forward), the router hands out new params and location.
locationChanged(addr) ==
    /\ address' = addr
    /\ location' = useRouter(addr)
    /\ iframeUpdateTrigger' = iframeUpdateTrigger
                                + (IF urlPage(location') # page THEN 1 ELSE 0)
                                + (IF urlHash(location') # hash THEN 1 ELSE 0)
    /\ iframeUpdateTrigger' <= MaxTrigger
    /\ lastEvent' = [type |-> "locationChanged", changed |-> differing(location')]
    /\ project' = urlProject(location')
    /\ versions' = IF urlProject(location') # project THEN <<>> ELSE versions
    /\ version' = urlVersion(location')
    /\ hideUi' = urlHideUi(location')
    /\ page' = urlPage(location')
    /\ hash' = urlHash(location')
    /\ UNCHANGED <<loadingFailed, fetch>>
    /\ Render(urlProject(location') # project)

\* the handler bringing the controls back on a page change
iFramePageChanged_showsUi(newPage, newHash) ==
    /\ View = "Docs"
    /\ lastEvent' = [type |-> "iFramePageChanged", page |-> newPage, hash |-> newHash]
    /\ UNCHANGED <<location, versions, loadingFailed, project, version,
                   iframeUpdateTrigger, fetch>>
    /\ IF newPage = page
       THEN UNCHANGED <<page, hash, address, hideUi>>
       ELSE /\ page' = newPage
            /\ hash' = newHash
            /\ hideUi' = FALSE
            /\ updateUrl(version, FALSE)
    /\ Render(FALSE)

\* the handler without its guard on an unchanged page
iFramePageChanged_unguarded(newPage, newHash) ==
    /\ View = "Docs"
    /\ lastEvent' = [type |-> "iFramePageChanged", page |-> newPage, hash |-> newHash]
    /\ UNCHANGED <<location, versions, loadingFailed, project, version, hideUi,
                   iframeUpdateTrigger, fetch>>
    /\ page' = newPage
    /\ hash' = newHash
    /\ updateUrl(version, hideUi)
    /\ Render(FALSE)

iFramePageChanged(newPage, newHash) ==
    /\ View = "Docs"
    /\ lastEvent' = [type |-> "iFramePageChanged", page |-> newPage, hash |-> newHash]
    /\ UNCHANGED <<location, versions, loadingFailed, project, version, hideUi,
                   iframeUpdateTrigger, fetch>>
    /\ IF newPage = page
       THEN UNCHANGED <<page, hash, address>>
       ELSE /\ page' = newPage
            /\ hash' = newHash
            /\ updateUrl(version, hideUi)
    /\ Render(FALSE)

\* the embedded viewer has just been given a source address: IFrame was mounted by
\* the render that followed the fetch, or iFrameSrc was recomputed
viewerLoading == View = "Docs" /\ (reloads = 1 \/ lastEvent.type = "fetchCompleted")

\* The viewer has loaded iFrameSrc and reports, through onPageChanged, the page and
\* the hash it was loaded with.
iFrameLoaded ==
    /\ viewerLoading
    /\ lastEvent' = [type |-> "iFrameLoaded", page |-> iFrameSrc.page, hash |-> iFrameSrc.hash]
    /\ UNCHANGED <<location, versions, loadingFailed, project, version, hideUi,
                   iframeUpdateTrigger, fetch>>
    /\ IF iFrameSrc.page = page
       THEN UNCHANGED <<page, hash, address>>
       ELSE /\ page' = iFrameSrc.page
            /\ hash' = iFrameSrc.hash
            /\ updateUrl(version, hideUi)
    /\ Render(FALSE)

iFrameHashChanged(newHash) ==
    /\ View = "Docs"
    /\ lastEvent' = [type |-> "iFrameHashChanged", hash |-> newHash]
    /\ UNCHANGED <<location, versions, loadingFailed, project, page, version, hideUi,
                   iframeUpdateTrigger, fetch>>
    /\ IF newHash = hash
       THEN UNCHANGED <<hash, address>>
       ELSE /\ hash' = newHash
            /\ updateUrl(version, hideUi)
    /\ Render(FALSE)

\* the handler writing the address from the version of the current render
onVersionChanged_staleUrl(newVersion) ==
    /\ ControlsShown
    /\ lastEvent' = [type |-> "onVersionChanged", version |-> newVersion]
    /\ UNCHANGED <<location, versions, loadingFailed, project, page, hash, hideUi,
                   iframeUpdateTrigger, fetch>>
    /\ IF newVersion = version
       THEN UNCHANGED <<version, address>>
       ELSE /\ version' = newVersion
            /\ updateUrl(version, hideUi)
    /\ Render(FALSE)

onVersionChanged(newVersion) ==
    /\ ControlsShown
    /\ lastEvent' = [type |-> "onVersionChanged", version |-> newVersion]
    /\ UNCHANGED <<location, versions, loadingFailed, project, page, hash, hideUi,
                   iframeUpdateTrigger, fetch>>
    /\ IF newVersion = version
       THEN UNCHANGED <<version, address>>
       ELSE /\ version' = newVersion
            /\ updateUrl(newVersion, hideUi)
    /\ Render(FALSE)

\* the handler writing the address from the hideUi of the current render
onHideUi_staleFlag ==
    /\ ControlsShown
    /\ lastEvent' = [type |-> "onHideUi"]
    /\ UNCHANGED <<location, versions, loadingFailed, project, page, hash, version,
                   iframeUpdateTrigger, fetch>>
    /\ hideUi' = TRUE
    /\ updateUrl(version, hideUi)
    /\ Render(FALSE)

onHideUi ==
    /\ ControlsShown
    /\ lastEvent' = [type |-> "onHideUi"]
    /\ UNCHANGED <<location, versions, loadingFailed, project, page, hash, version,
                   iframeUpdateTrigger, fetch>>
    /\ hideUi' = TRUE
    /\ updateUrl(version, TRUE)
    /\ Render(FALSE)

Next ==
    \/ \E outcome \in {"ok", "throw"} : fetchCompleted(outcome)
    \/ \E addr \in Addresses : locationChanged(addr)
    \/ \E newPage \in Pages, newHash \in ViewerHashes : iFramePageChanged(newPage, newHash)
    \/ \E newHash \in ViewerHashes : iFrameHashChanged(newHash)
    \/ iFrameLoaded
    \/ \E i \in 1..Len(versions) : onVersionChanged(versions[i].name)
    \/ onHideUi

Spec == Init /\ [][Next]_vars

----------------------------------------------------------------------------
(* Properties *)

tuple == [project |-> project, version |-> version, page |-> page, hash |-> hash,
          hideUi |-> hideUi]

isViewerReport(e) == e.type \in {"iFramePageChanged", "iFrameHashChanged", "iFrameLoaded"}

C2_NoReloadOnNavigation ==
    [][isViewerReport(lastEvent') => iFrameSrc' = iFrameSrc /\ reloads' = 0]_vars

\* the viewer reported a hash that the viewer's source address does not carry
C2_Witness ==
    /\ lastEvent.type = "iFrameHashChanged"
    /\ hash = lastEvent.hash
    /\ hash # iFrameSrc.hash
    /\ reloads = 0

\* C3: selecting a version other than the current one sets version, writes the
\* address of the new version and recomputes iFrameSrc exactly once from the new
\* version and the current project, page and hash; selecting the current version
\* changes nothing.
C3_ReloadOnVersionChange ==
    [][lastEvent'.type = "onVersionChanged" =>
          IF lastEvent'.version # version
          THEN /\ version' = lastEvent'.version
               /\ address' = getUrl(project, lastEvent'.version, page, hash, hideUi)
               /\ reloads' = 1
               /\ iFrameSrc' = getProjectDocsURL(project, lastEvent'.version, page, hash)
               /\ UNCHANGED <<project, page, hash>>
          ELSE UNCHANGED progVars /\ reloads' = 0]_vars

\* a different version has just been selected
C3_Witness ==
    /\ lastEvent.type = "onVersionChanged"
    /\ version = lastEvent.version
    /\ reloads = 1
    /\ iFrameSrc.version = version

\* C4: a page report equal to the in-memory page and a hash report equal to the
\* in-memory hash change nothing: no field, no address, no reload.
C4_SameReportIsNoOp ==
    [][\/ lastEvent'.type = "iFramePageChanged" /\ lastEvent'.page = page
       \/ lastEvent'.type = "iFrameHashChanged" /\ lastEvent'.hash = hash
       => UNCHANGED progVars /\ reloads' = 0]_vars

\* the viewer reported the in-memory page together with another hash, which was dropped
C4_Witness ==
    /\ lastEvent.type = "iFramePageChanged"
    /\ lastEvent.page = page
    /\ lastEvent.hash # hash

\* C5: decoding the address getUrl writes for the in-memory tuple gives the tuple
\* back, also when the hash is empty or holds a '?'.
C5_RoundTrip == decode(getUrl(project, version, page, hash, hideUi)) = tuple

\* C6: with a non-empty version set the outdated advisory is shown exactly when
\* version is not the name of the latest version.
C6_AdvisoryIffOutdated ==
    versions # <<>> => (advisory <=> version # getLatestVersion(versions).name)

\* 1.0.0 of {1.0.0, 1.1.0, 1.2.0} is viewed and the advisory is shown
C6_Witness ==
    /\ versions = sortVersions(Repo[P1])
    /\ version = V100
    /\ advisory

\* C7: when the fetch for a concrete requested version answers a non-empty set,
\* loadingFailed becomes true exactly when the requested version is no record's name
\* and in no record's tags, the view is then not-found, and version is left alone.
C7_UnknownVersionFails ==
    [][/\ lastEvent'.type = "fetchCompleted"
       /\ lastEvent'.outcome = "ok"
       /\ fetch.version # LATEST
       /\ Repo[fetch.project] # <<>>
       => /\ loadingFailed' <=>
               ~\E i \in 1..Len(Repo[fetch.project]) :
                    \/ Repo[fetch.project][i].name = fetch.version
                    \/ includes(Repo[fetch.project][i].tags, fetch.version)
          /\ loadingFailed' => View' = "NotFound"
          /\ version' = version]_vars

\* the fetch for the unknown version 9.9.9 has answered
C7_Witness ==
    /\ lastEvent.type = "fetchCompleted"
    /\ lastEvent.outcome = "ok"
    /\ fetch.version = V999
    /\ versions # <<>>
    /\ loadingFailed
    /\ View = "NotFound"

\* C8: when the fetch fails or answers an empty set, loadingFailed becomes true,
\* the view is not-found, and versions and version are left alone.
C8_EmptyOrFailedFetch ==
    [][/\ lastEvent'.type = "fetchCompleted"
       /\ lastEvent'.outcome = "throw" \/ Repo[fetch.project] = <<>>
       => /\ loadingFailed'
          /\ View' = "NotFound"
          /\ UNCHANGED <<versions, version>>]_vars

\* the fetch for the project without versions has answered
C8_Witness ==
    /\ lastEvent.type = "fetchCompleted"
    /\ lastEvent.outcome = "ok"
    /\ fetch.project = P3
    /\ loadingFailed
    /\ versions = <<>>

\* C9: a change from one project to another clears versions and invokes the resolver
\* for the new project, so that the loading state is left once that fetch completes.
C9_ReResolveOnProjectChange ==
    [][project # EMPTY /\ project' # EMPTY /\ project' # project =>
          /\ versions' = <<>>
          /\ fetch'.status = "pending"
          /\ fetch'.project = project']_vars

\* C10: a non-empty versions is the fetched set of the in-memory project: the
\* response to a query for a project that is no longer current is never applied.
C10_VersionsOfCurrentProject ==
    versions # <<>> /\ project \in Projects => versions = sortVersions(Repo[project])


\* C11: when the fetch issued for 'latest' answers a set whose latest name is
\* concrete, version becomes that name and the address is rewritten so that its
\* version segment is that name; when the latest name is 'latest' neither changes.
C11_AddressFollowsResolvedLatest ==
    [][/\ lastEvent'.type = "fetchCompleted"
       /\ lastEvent'.outcome = "ok"
       /\ fetch.version = LATEST
       /\ version = LATEST
       /\ project = fetch.project
       /\ Repo[fetch.project] # <<>>
       => LET latest == getLatestVersion(Repo[fetch.project]).name IN
          IF latest # LATEST
          THEN version' = latest /\ urlVersion(useRouter(address')) = latest
          ELSE UNCHANGED <<version, address>>]_vars


\* C12: an external address change sets every differing field to the address value
\* and recomputes iFrameSrc whenever page, hash, version or project differs - also
\* when the project alone differs (a change from one project to another).
C12_AddressChangeReloads ==
    [][lastEvent'.type = "locationChanged" /\ project # EMPTY /\ urlProject(location') # EMPTY =>
          /\ project' = urlProject(location')
          /\ version' = urlVersion(location')
          /\ page' = urlPage(location')
          /\ hash' = urlHash(location')
          /\ hideUi' = urlHideUi(location')
          /\ lastEvent'.changed \cap {"project", "version", "page", "hash"} # {}
             => /\ reloads' = 1
                /\ iFrameSrc' = getProjectDocsURL(project', version', page', hash')]_vars

C14_NoAdvisoryWhileEmpty == versions = <<>> /\ View = "Loading" => ~advisory


sortedAscending(vs) ==
    \A i, j \in 1..Len(vs) : i < j => compareVersions(vs[i], vs[j]) <= 0

sameRecords(a, b) ==
    Len(a) = Len(b) /\ {a[i] : i \in 1..Len(a)} = {b[i] : i \in 1..Len(b)}

\* C15: when the fetch issued for 'latest' answers a non-empty set, in whatever
\* order, versions becomes that set sorted ascending under the Version Comparator
\* and version becomes the name of its maximum.
C15_LatestIsMaximum ==
    [][/\ lastEvent'.type = "fetchCompleted"
       /\ lastEvent'.outcome = "ok"
       /\ fetch.version = LATEST
       /\ Repo[fetch.project] # <<>>
       => /\ sameRecords(versions', Repo[fetch.project])
          /\ sortedAscending(versions')
          /\ \E i \in 1..Len(versions') :
                /\ versions'[i].name = version'
                /\ \A j \in 1..Len(versions') :
                      compareVersions(versions'[j], versions'[i]) <= 0]_vars

\* 'latest' of {1.0.0, 1.2.0, 1.1.0} has been resolved to 1.2.0
C15_Witness ==
    /\ lastEvent.type = "fetchCompleted"
    /\ lastEvent.outcome = "ok"
    /\ fetch.version = LATEST
    /\ fetch.project = P1
    /\ versions = <<[name |-> V100, tags |-> <<>>],
                    [name |-> V110, tags |-> <<>>],
                    [name |-> V120, tags |-> <<>>]>>
    /\ version = V120


\* C16: no transition re-triggers itself.  An address written by the synchronizer
\* does not reach the router and reloads nothing (a reload in such a step comes from
\* the changed version alone); every event recomputes iFrameSrc at most once; and when
\* the reloaded viewer reports the page and hash it was loaded with, nothing changes -
\* no address mutation, no reload - after which no reaction is left to run.
C16_NoUpdateLoop ==
    [][/\ reloads' \in {0, 1}
       /\ lastEvent'.type \in {"iFramePageChanged", "iFrameHashChanged", "iFrameLoaded",
                               "onVersionChanged", "onHideUi"}
          => /\ location' = location
             /\ iframeUpdateTrigger' = iframeUpdateTrigger
             /\ reloads' = 1 => version' # version
       /\ lastEvent'.type = "iFrameLoaded"
          => /\ UNCHANGED progVars
             /\ reloads' = 0
             /\ ~viewerLoading']_vars

\* after an external address change reloaded the viewer, the viewer has reported the
\* page and hash it was loaded with
C16_Witness ==
    /\ lastEvent.type = "iFrameLoaded"
    /\ iframeUpdateTrigger > 0
    /\ lastEvent.page = page
    /\ lastEvent.hash = hash
    /\ location.page = page
    /\ reloads = 0


\* C17: once loadingFailed is true it stays true under every transition, and the view
\* is not-found whenever loadingFailed is true or the project is empty.
C17_LoadFailedIsTerminal ==
    [][/\ loadingFailed => loadingFailed'
       /\ loadingFailed' \/ project' = EMPTY => View' = "NotFound"]_vars

\* after the failure the address has changed to another project that has versions
C17_Witness ==
    /\ loadingFailed
    /\ lastEvent.type = "locationChanged"
    /\ "project" \in lastEvent.changed
    /\ project \in {P1, P2}
    /\ project # fetch.project
    /\ View = "NotFound"

\* C18: when the address changes the version after the resolver was invoked with
\* 'latest' and before its fetch completes, the completion leaves the newer version
\* alone and validates it, not the captured 'latest'.
C18_ResolutionKeepsNewerVersion ==
    [][/\ lastEvent'.type = "fetchCompleted"
       /\ lastEvent'.outcome = "ok"
       /\ fetch.version = LATEST
       /\ version # LATEST
       /\ project = fetch.project
       /\ Repo[fetch.project] # <<>>
       => /\ version' = version
          /\ loadingFailed' <=> ~includes(versionsAndTags(Repo[fetch.project]), version)]_vars

\* C19: whenever the embedded viewer is rendered, version is the name or a tag of
\* one of the fetched records: never the unresolved alias, never an unknown version.
C19_RenderedVersionResolved ==
    View = "Docs" => includes(versionsAndTags(versions), version)

\* C20: an address written by a viewer-reported page change, a viewer-reported hash
\* change, a version selection or a hide-ui request is getUrl of the tuple after the
\* step, and the step changes only its own fields: page and hash, hash, version,
\* hideUi; project, versions and loadingFailed stay.
C20_AddressFollowsTuple ==
    [][LET written == address' = getUrl(project', version', page', hash', hideUi')
           kept == UNCHANGED <<project, versions, loadingFailed>>
       IN
       /\ lastEvent'.type = "iFramePageChanged" /\ lastEvent'.page # page
          => written /\ kept /\ UNCHANGED <<version, hideUi>>
                     /\ page' = lastEvent'.page /\ hash' = lastEvent'.hash
       /\ lastEvent'.type = "iFrameHashChanged" /\ lastEvent'.hash # hash
          => written /\ kept /\ UNCHANGED <<page, version, hideUi>>
                     /\ hash' = lastEvent'.hash
       /\ lastEvent'.type = "onVersionChanged" /\ lastEvent'.version # version
          => written /\ kept /\ UNCHANGED <<page, hash, hideUi>>
                     /\ version' = lastEvent'.version
       /\ lastEvent'.type = "onHideUi"
          => written /\ kept /\ UNCHANGED <<page, hash, version>> /\ hideUi']_vars

\* the hide-ui request has written the address with the flag
C20_Witness ==
    /\ lastEvent.type = "onHideUi"
    /\ hideUi
    /\ address = getUrl(project, version, page, hash, TRUE)
    /\ ~urlHideUi(location)

====
